---- MODULE Spec2Model ----
(***************************************************************************)
(* Model of streamlit_app.py: the MP4 -> MP3 batch conversion script.      *)
(*                                                                         *)
(* One script run per session: capability probe, upload + validation,      *)
(* the "Converter todos" handler (clear, per-item loop, delivery, zip).    *)
(* The output directory and the temp directory are shared by all sessions  *)
(* of the server process; every other variable is local to a session.      *)
(*                                                                         *)
(* File names are tuples of one-character strings so that lower(),         *)
(* endswith(), Path.stem and glob matching are computed, not assumed.      *)
(***************************************************************************)
EXTENDS Integers, Sequences, FiniteSets, TLC

\* ---------------------------------------------------------------- bounds
MaxNameLen == 5      \* longest file name given to validate_file on its own
MaxUpload == 2       \* most files in one upload
MaxBatches == 2      \* most clicks on "Converter todos" overall
NumSessions == 2     \* browser sessions of the concurrent specification

\* ------------------------------------------------------------- constants
SIZE_LIMIT == 500 * 1024 * 1024
PROBE_TIMEOUT == 10
CONVERT_TIMEOUT == 300

Sessions == 1..NumSessions

\* ------------------------------------------------------------ file names
Alphabet == {"a", ".", "m", "M", "p", "4"}

DOT_MP4 == <<".", "m", "p", "4">>
DOT_MP3 == <<".", "m", "p", "3">>

\* str.lower(), one character at a time
LowerChar(c) ==
  CASE c = "M" -> "m"
    [] c = "P" -> "p"
    [] c = "A" -> "a"
    [] OTHER -> c

Lower(name) == [i \in 1..Len(name) |-> LowerChar(name[i])]

\* str.endswith(suffix)
EndsWith(name, suffix) ==
  /\ Len(name) >= Len(suffix)
  /\ SubSeq(name, Len(name) - Len(suffix) + 1, Len(name)) = suffix

\* str.rfind("."): 1-based index of the last dot, 0 when there is none
RFindDot(name) ==
  LET dots == {i \in 1..Len(name) : name[i] = "."}
  IN IF dots = {} THEN 0 ELSE CHOOSE i \in dots : \A j \in dots : j <= i

\* pathlib.PurePath.stem: the name without its final suffix; a leading dot
\* or a trailing dot starts no suffix
Stem(name) ==
  LET i == RFindDot(name)
  IN IF i > 1 /\ i < Len(name) THEN SubSeq(name, 1, i - 1) ELSE name

\* mp3_name = Path(uploaded.name).stem + ".mp3"
Mp3Name(name) == Stem(name) \o DOT_MP3

\* output_path = OUTPUT_DIR / mp3_name, and Path.name of such a path
OutputPath(mp3name) == <<"output", mp3name>>
BaseName(path) == path[Len(path)]

\* a glob that skips dot-files, as glob.glob and the shell do
GlobMp3_SkipsHidden(fname) == EndsWith(fname, DOT_MP3) /\ fname[1] # "."

\* OUTPUT_DIR.glob("*.mp3"): pathlib matches dot-files too
GlobMp3(fname) == EndsWith(fname, DOT_MP3)

\* ---------------------------------------------------------- validate_file
\* the size test written with >= : a file of exactly 500 MiB is refused
validate_file_AtLimit(f) ==
  IF ~EndsWith(Lower(f.name), DOT_MP4) THEN <<FALSE, <<f.name, "nao_mp4">>>>
  ELSE IF f.size = 0 THEN <<FALSE, <<f.name, "vazio">>>>
  ELSE IF f.size >= 500 * 1024 * 1024 THEN <<FALSE, <<f.name, "excede">>>>
  ELSE <<TRUE, <<>>>>

validate_file(f) ==
  IF ~EndsWith(Lower(f.name), DOT_MP4) THEN <<FALSE, <<f.name, "nao_mp4">>>>
  ELSE IF f.size = 0 THEN <<FALSE, <<f.name, "vazio">>>>
  ELSE IF f.size > 500 * 1024 * 1024 THEN <<FALSE, <<f.name, "excede">>>>
  ELSE <<TRUE, <<>>>>

\* ------------------------------------------------------------ check_ffmpeg
\* what launching ["ffmpeg", "-version"] under timeout=10 can do
ProbeLaunches ==
  {[kind |-> "exit", returncode |-> 0, secs |-> 1],
   [kind |-> "exit", returncode |-> 1, secs |-> 1],
   [kind |-> "exit", returncode |-> 0, secs |-> PROBE_TIMEOUT + 1],
   [kind |-> "FileNotFoundError", returncode |-> 0, secs |-> 0],
   [kind |-> "PermissionError", returncode |-> 0, secs |-> 0]}

\* subprocess.run(..., timeout=t): the exception or the completed process
SubprocessRun(l, t) ==
  IF l.kind # "exit" THEN [raised |-> l.kind, returncode |-> 0]
  ELSE IF l.secs > t THEN [raised |-> "TimeoutExpired", returncode |-> 0]
  ELSE [raised |-> "none", returncode |-> l.returncode]

\* check_ffmpeg: the value returned, or the exception that leaves the function
check_ffmpeg(l) ==
  LET r == SubprocessRun(l, PROBE_TIMEOUT)
  IN IF r.raised = "none" THEN [raised |-> "none", value |-> (r.returncode = 0)]
     ELSE IF r.raised \in {"FileNotFoundError", "TimeoutExpired"}
          THEN [raised |-> "none", value |-> FALSE]
     ELSE [raised |-> r.raised, value |-> FALSE]

\* ------------------------------------------------------ convert_mp4_to_mp3
\* what launching ffmpeg -y -i input ... output under timeout=300 can do:
\* how it ends, and what it did to the output file before it ended
\* (subprocess.run kills the child on timeout; what it wrote stays).
\* Only after exit code 0 does the code look at the file, so only there is
\* an empty file told apart from an incomplete one.
ToolRuns ==
  {[kind |-> "OSError", returncode |-> 0, secs |-> 0, wrote |-> "nothing"]}
  \cup [kind : {"exit"}, returncode : {1}, secs : {1},
        wrote : {"nothing", "partial"}]
  \cup [kind : {"exit"}, returncode : {0}, secs : {1},
        wrote : {"nothing", "empty", "full"}]
  \cup [kind : {"exit"}, returncode : {0}, secs : {CONVERT_TIMEOUT + 1},
        wrote : {"nothing", "partial"}]

\* the output directory after the tool ran: -y overwrites what was there
ToolWrites(dir, fname, t, tag) ==
  IF t.wrote = "nothing" THEN dir
  ELSE [n \in DOMAIN dir \cup {fname} |->
          IF n = fname THEN [content |-> t.wrote, run |-> tag.run,
                             owner |-> tag.owner, item |-> tag.item]
          ELSE dir[n]]

\* output_path.exists() and output_path.stat().st_size
Exists(dir, fname) == fname \in DOMAIN dir
StSize(dir, fname) == IF dir[fname].content = "empty" THEN 0 ELSE 1

\* the dict returned by convert_mp4_to_mp3, given the directory the tool left
convert_mp4_to_mp3(dir, output_path, t) ==
  LET r == SubprocessRun(t, CONVERT_TIMEOUT)
      fname == BaseName(output_path)
  IN IF r.raised = "TimeoutExpired" THEN [success |-> FALSE, error |-> "Timeout"]
     ELSE IF r.raised # "none" THEN [success |-> FALSE, error |-> r.raised]
     ELSE IF r.returncode # 0 THEN [success |-> FALSE, error |-> "stderr"]
     ELSE IF ~Exists(dir, fname) \/ StSize(dir, fname) = 0
          THEN [success |-> FALSE, error |-> "vazio"]
     ELSE [success |-> TRUE, error |-> ""]

\* ----------------------------------------------------------------- create_zip
NoZip == [present |-> FALSE, entries |-> <<>>, run |-> 0, owner |-> 0]

\* the entries written before the first path that is missing (all of them
\* when none is); zf.write raises FileNotFoundError on a missing path
RECURSIVE ZipEntries(_, _)
ZipEntries(dir, mp3_files) ==
  IF mp3_files = <<>> THEN <<>>
  ELSE IF ~Exists(dir, BaseName(Head(mp3_files))) THEN <<>>
  ELSE <<BaseName(Head(mp3_files))>> \o ZipEntries(dir, Tail(mp3_files))

create_zip(dir, mp3_files, tag) ==
  LET es == ZipEntries(dir, mp3_files)
  IN [zip |-> [present |-> TRUE, entries |-> es, run |-> tag.run,
               owner |-> tag.owner],
      raised |-> Len(es) < Len(mp3_files)]

\* ------------------------------------------------------------------- inputs
ValidateNames == UNION {[1..n -> Alphabet] : n \in 0..MaxNameLen}
ValidateSizes == {0, 1, SIZE_LIMIT - 1, SIZE_LIMIT, SIZE_LIMIT + 1}

A_MP4 == <<"a", ".", "m", "p", "4">>
A_MP4_UPPER == <<"a", ".", "M", "p", "4">>
HIDDEN_MP4 == <<".", "m", "p", "4">>
M_MP4 == <<"m", ".", "m", "p", "4">>

\* the files a user may pick (the uploader is given type=["mp4"]): three
\* acceptable ones, two of them with the same stem, an empty one and one
\* that is too large
UploadFiles ==
  {[name |-> A_MP4, size |-> 1],
   [name |-> A_MP4_UPPER, size |-> SIZE_LIMIT],
   [name |-> HIDDEN_MP4, size |-> 1],
   [name |-> M_MP4, size |-> 0],
   [name |-> A_MP4, size |-> SIZE_LIMIT + 1]}

Uploads == UNION {[1..n -> UploadFiles] : n \in 0..MaxUpload}

\* -------------------------------------------------------------------- state
VARIABLES
  arg, verdict,      \* validate_file on its own: the argument and the result
  dir,               \* OUTPUT_DIR: file name -> what the file holds
  zip,               \* OUTPUT_DIR / "todos_mp3.zip"
  tmp,               \* the temporary input copies that exist
  runs,              \* batches started so far, in all sessions
  cleared,           \* whether the latest clear removed outputs, a bundle
  pc,                \* per session: where its script run is
  probe,             \* per session: what check_ffmpeg gave
  run,               \* per session: number of its current batch
  uploaded_files, valid_files, invalid_files,
  converted_files, errors, idx, tmp_path, result,
  invoked            \* per session: the items handed to the worker this run

shared == <<dir, zip, tmp, runs, cleared>>
locals == <<pc, probe, run, uploaded_files, valid_files, invalid_files,
            converted_files, errors, idx, tmp_path, result, invoked>>
vars == <<arg, verdict, shared, locals>>

NoProbe == [raised |-> "none", value |-> FALSE]
NoResult == [success |-> FALSE, error |-> ""]
NoArg == [name |-> <<>>, size |-> 0]
EmptyDir == [n \in {} |-> 0]
NoneCleared == [outputs |-> FALSE, zip |-> FALSE]

InitScript ==
  /\ dir = EmptyDir /\ zip = NoZip /\ tmp = {} /\ runs = 0
  /\ cleared = NoneCleared
  /\ pc = [s \in Sessions |-> "Start"]
  /\ probe = [s \in Sessions |-> NoProbe]
  /\ run = [s \in Sessions |-> 0]
  /\ uploaded_files = [s \in Sessions |-> <<>>]
  /\ valid_files = [s \in Sessions |-> <<>>]
  /\ invalid_files = [s \in Sessions |-> <<>>]
  /\ converted_files = [s \in Sessions |-> <<>>]
  /\ errors = [s \in Sessions |-> <<>>]
  /\ idx = [s \in Sessions |-> 0]
  /\ tmp_path = [s \in Sessions |-> <<>>]
  /\ result = [s \in Sessions |-> NoResult]
  /\ invoked = [s \in Sessions |-> <<>>]

Init == InitScript /\ arg = NoArg /\ verdict = <<>>

\* ----------------------------------------------------- the script, per step
\* lines 83-92: the probe gate at the top of every script run
ProbeGate(s, launches) ==
  /\ pc[s] = "Start"
  /\ \E l \in launches :
       LET r == check_ffmpeg(l)
       IN /\ probe' = [probe EXCEPT ![s] = r]
          /\ pc' = [pc EXCEPT ![s] =
                      IF r.raised # "none" THEN "Crashed"
                      ELSE IF r.value THEN "Uploader" ELSE "Stopped"]
  /\ UNCHANGED <<arg, verdict, shared, run, uploaded_files, valid_files,
                 invalid_files, converted_files, errors, idx, tmp_path,
                 result, invoked>>

\* lines 104-109: the validation loop, order kept in both lists
RECURSIVE Partition(_, _)
Partition(files, which) ==
  IF files = <<>> THEN <<>>
  ELSE LET f == Head(files)
           v == validate_file(f)
           rest == Partition(Tail(files), which)
       IN IF which = "valid"
          THEN (IF v[1] THEN <<f>> \o rest ELSE rest)
          ELSE (IF v[1] THEN rest ELSE <<v[2]>> \o rest)

\* lines 94-125: the upload, its validation, the queue on screen
Upload(s, uploads) ==
  /\ pc[s] = "Uploader"
  /\ \E u \in uploads :
       LET fs == [i \in 1..Len(u) |->
                    [id |-> i, name |-> u[i].name, size |-> u[i].size]]
       IN /\ uploaded_files' = [uploaded_files EXCEPT ![s] = fs]
          /\ valid_files' = [valid_files EXCEPT ![s] = Partition(fs, "valid")]
          /\ invalid_files' =
               [invalid_files EXCEPT ![s] = Partition(fs, "invalid")]
          /\ pc' = [pc EXCEPT ![s] =
                      IF Partition(fs, "valid") # <<>> THEN "Queued"
                      ELSE "Ended"]
  /\ UNCHANGED <<arg, verdict, shared, probe, run, converted_files, errors,
                 idx, tmp_path, result, invoked>>

\* lines 128-129: for old in OUTPUT_DIR.glob("*.mp3"): old.unlink()
ClearMp3(d) == [n \in {m \in DOMAIN d : ~GlobMp3(m)} |-> d[n]]

\* lines 127-129: the button is pressed, the old outputs go
Click(s) ==
  /\ pc[s] = "Queued"
  /\ runs < MaxBatches
  /\ runs' = runs + 1
  /\ run' = [run EXCEPT ![s] = runs + 1]
  /\ dir' = ClearMp3(dir)
  /\ cleared' = [outputs |-> DOMAIN ClearMp3(dir) # DOMAIN dir, zip |-> FALSE]
  /\ pc' = [pc EXCEPT ![s] = "ClearZip"]
  /\ UNCHANGED <<arg, verdict, zip, tmp, probe, uploaded_files, valid_files,
                 invalid_files, converted_files, errors, idx, tmp_path,
                 result, invoked>>

\* lines 130-138: the old archive goes, the result lists start empty
ClearZip(s) ==
  /\ pc[s] = "ClearZip"
  /\ zip' = NoZip
  /\ cleared' = [cleared EXCEPT !.zip = zip.present]
  /\ converted_files' = [converted_files EXCEPT ![s] = <<>>]
  /\ errors' = [errors EXCEPT ![s] = <<>>]
  /\ idx' = [idx EXCEPT ![s] = 0]
  /\ invoked' = [invoked EXCEPT ![s] = <<>>]
  /\ pc' = [pc EXCEPT ![s] = "Loop"]
  /\ UNCHANGED <<arg, verdict, dir, tmp, runs, probe, run, uploaded_files,
                 valid_files, invalid_files, tmp_path, result>>

\* what creating and filling the temporary copy can do
TempWrites == {"ok", "create_raises", "write_raises"}

\* the file being processed, and the temporary copy made for it (a run has
\* one copy at a time, so the session and the run name it)
Current(s) == valid_files[s][idx[s] + 1]
TmpName(s) == <<s, run[s]>>

\* lines 140-147: progress, then the temporary copy (delete=False); creating
\* it or writing to it may raise, and nothing in the loop catches that
WriteTemp(s, ios) ==
  /\ pc[s] = "Loop"
  /\ idx[s] < Len(valid_files[s])
  /\ \E io \in ios :
       /\ tmp' = IF io = "create_raises" THEN tmp ELSE tmp \cup {TmpName(s)}
       /\ tmp_path' = [tmp_path EXCEPT ![s] =
                         IF io = "ok" THEN TmpName(s) ELSE @]
       /\ pc' = [pc EXCEPT ![s] = IF io = "ok" THEN "Convert" ELSE "Aborted"]
  /\ UNCHANGED <<arg, verdict, dir, zip, runs, cleared, probe, run,
                 uploaded_files, valid_files, invalid_files, converted_files,
                 errors, idx, result, invoked>>

\* the worker step with the clear moved into the loop: every item first
\* empties the output directory
Convert_ClearsFirst(s, tools) ==
  /\ pc[s] = "Convert"
  /\ \E t \in tools :
       LET mp3_name == Mp3Name(Current(s).name)
           output_path == OutputPath(mp3_name)
           after == ToolWrites(EmptyDir, mp3_name, t,
                      [run |-> run[s], owner |-> s, item |-> Current(s).id])
       IN /\ dir' = after
          /\ result' = [result EXCEPT ![s] =
                          convert_mp4_to_mp3(after, output_path, t)]
  /\ invoked' = [invoked EXCEPT ![s] = Append(@, Current(s).id)]
  /\ pc' = [pc EXCEPT ![s] = "Record"]
  /\ UNCHANGED <<arg, verdict, zip, tmp, runs, cleared, probe, run,
                 uploaded_files, valid_files, invalid_files, converted_files,
                 errors, idx, tmp_path>>

\* lines 149-152: the output path, and the worker on it
Convert(s, tools) ==
  /\ pc[s] = "Convert"
  /\ \E t \in tools :
       LET mp3_name == Mp3Name(Current(s).name)
           output_path == OutputPath(mp3_name)
           after == ToolWrites(dir, mp3_name, t,
                      [run |-> run[s], owner |-> s, item |-> Current(s).id])
       IN /\ dir' = after
          /\ result' = [result EXCEPT ![s] =
                          convert_mp4_to_mp3(after, output_path, t)]
  /\ invoked' = [invoked EXCEPT ![s] = Append(@, Current(s).id)]
  /\ pc' = [pc EXCEPT ![s] = "Record"]
  /\ UNCHANGED <<arg, verdict, zip, tmp, runs, cleared, probe, run,
                 uploaded_files, valid_files, invalid_files, converted_files,
                 errors, idx, tmp_path>>

\* the recording step without its else branch: a failure is not listed
Record_DropsFailure(s) ==
  /\ pc[s] = "Record"
  /\ tmp' = tmp \ {tmp_path[s]}
  /\ IF result[s].success
     THEN /\ converted_files' = [converted_files EXCEPT ![s] =
               Append(@, OutputPath(Mp3Name(Current(s).name)))]
          /\ UNCHANGED errors
     ELSE UNCHANGED <<errors, converted_files>>
  /\ idx' = [idx EXCEPT ![s] = @ + 1]
  /\ pc' = [pc EXCEPT ![s] = "Loop"]
  /\ UNCHANGED <<arg, verdict, dir, zip, runs, cleared, probe, run,
                 uploaded_files, valid_files, invalid_files, tmp_path,
                 result, invoked>>

\* lines 154-159: the temporary copy goes, the outcome is recorded
Record(s) ==
  /\ pc[s] = "Record"
  /\ tmp' = tmp \ {tmp_path[s]}
  /\ IF result[s].success
     THEN /\ converted_files' = [converted_files EXCEPT ![s] =
               Append(@, OutputPath(Mp3Name(Current(s).name)))]
          /\ UNCHANGED errors
     ELSE /\ errors' = [errors EXCEPT ![s] =
               Append(@, <<Current(s).name, result[s].error>>)]
          /\ UNCHANGED converted_files
  /\ idx' = [idx EXCEPT ![s] = @ + 1]
  /\ pc' = [pc EXCEPT ![s] = "Loop"]
  /\ UNCHANGED <<arg, verdict, dir, zip, runs, cleared, probe, run,
                 uploaded_files, valid_files, invalid_files, tmp_path,
                 result, invoked>>

\* the delivery step that bundles as soon as there is one converted file
Deliver_BundlesOne(s) ==
  /\ pc[s] = "Loop"
  /\ idx[s] = Len(valid_files[s])
  /\ pc' = [pc EXCEPT ![s] =
       IF \E i \in 1..Len(converted_files[s]) :
            ~Exists(dir, BaseName(converted_files[s][i]))
       THEN "Aborted"
       ELSE IF Len(converted_files[s]) > 0 THEN "Bundle" ELSE "Done"]
  /\ UNCHANGED <<arg, verdict, shared, probe, run, uploaded_files,
                 valid_files, invalid_files, converted_files, errors, idx,
                 tmp_path, result, invoked>>

\* lines 161-179 and 194-197: the loop is over; every converted file is read
\* for its download button (read_bytes raises on a missing file)
Deliver(s) ==
  /\ pc[s] = "Loop"
  /\ idx[s] = Len(valid_files[s])
  /\ pc' = [pc EXCEPT ![s] =
       IF \E i \in 1..Len(converted_files[s]) :
            ~Exists(dir, BaseName(converted_files[s][i]))
       THEN "Aborted"
       ELSE IF Len(converted_files[s]) > 1 THEN "Bundle" ELSE "Done"]
  /\ UNCHANGED <<arg, verdict, shared, probe, run, uploaded_files,
                 valid_files, invalid_files, converted_files, errors, idx,
                 tmp_path, result, invoked>>

\* lines 181-192: the archive of all converted files
Bundle(s) ==
  /\ pc[s] = "Bundle"
  /\ LET z == create_zip(dir, converted_files[s],
                         [run |-> run[s], owner |-> s])
     IN /\ zip' = z.zip
        /\ pc' = [pc EXCEPT ![s] = IF z.raised THEN "Aborted" ELSE "Done"]
  /\ UNCHANGED <<arg, verdict, dir, tmp, runs, cleared, probe, run,
                 uploaded_files, valid_files, invalid_files, converted_files,
                 errors, idx, tmp_path, result, invoked>>

\* the next interaction runs the script again from the top
Rerun(s) ==
  /\ pc[s] \in {"Stopped", "Crashed", "Ended", "Done", "Aborted"}
  /\ runs < MaxBatches
  /\ pc' = [pc EXCEPT ![s] = "Start"]
  /\ probe' = [probe EXCEPT ![s] = NoProbe]
  /\ uploaded_files' = [uploaded_files EXCEPT ![s] = <<>>]
  /\ valid_files' = [valid_files EXCEPT ![s] = <<>>]
  /\ invalid_files' = [invalid_files EXCEPT ![s] = <<>>]
  /\ converted_files' = [converted_files EXCEPT ![s] = <<>>]
  /\ errors' = [errors EXCEPT ![s] = <<>>]
  /\ idx' = [idx EXCEPT ![s] = 0]
  /\ tmp_path' = [tmp_path EXCEPT ![s] = <<>>]
  /\ result' = [result EXCEPT ![s] = NoResult]
  /\ invoked' = [invoked EXCEPT ![s] = <<>>]
  /\ UNCHANGED <<arg, verdict, shared, run>>

Step(s) ==
  \/ ProbeGate(s, ProbeLaunches)
  \/ Upload(s, Uploads)
  \/ Click(s)
  \/ ClearZip(s)
  \/ WriteTemp(s, TempWrites)
  \/ Convert(s, ToolRuns)
  \/ Record(s)
  \/ Deliver(s)
  \/ Bundle(s)
  \/ Rerun(s)

\* one session: batches run one after the other
Next == Step(1)
Spec == Init /\ [][Next]_vars

\* several sessions of the same server process, each running the same
\* script on the shared directory; the inputs are narrowed to a working
\* ffmpeg, one upload of two files and two ways a conversion ends
SessionUploads ==
  {<<[name |-> A_MP4, size |-> 1], [name |-> HIDDEN_MP4, size |-> 1]>>}
SessionToolRuns ==
  {[kind |-> "exit", returncode |-> 0, secs |-> 1, wrote |-> "full"],
   [kind |-> "exit", returncode |-> 0, secs |-> CONVERT_TIMEOUT + 1,
    wrote |-> "partial"]}
SessionProbes == {[kind |-> "exit", returncode |-> 0, secs |-> 1]}

SessionStep(s) ==
  \/ ProbeGate(s, SessionProbes)
  \/ Upload(s, SessionUploads)
  \/ Click(s)
  \/ ClearZip(s)
  \/ WriteTemp(s, {"ok"})
  \/ Convert(s, SessionToolRuns)
  \/ Record(s)
  \/ Deliver(s)
  \/ Bundle(s)
  \/ Rerun(s)

NextSessions == \E s \in Sessions : SessionStep(s)
SpecSessions == Init /\ [][NextSessions]_vars

\* validate_file on its own, on every name and size within the bounds
InitValidate ==
  /\ InitScript
  /\ arg \in [name : ValidateNames, size : ValidateSizes]
  /\ verdict = <<>>

Validate ==
  /\ verdict = <<>>
  /\ verdict' = validate_file(arg)
  /\ UNCHANGED <<arg, shared, locals>>

SpecValidate == InitValidate /\ [][Validate]_vars

\* ------------------------------------------------------------- properties
InBatch == {"ClearZip", "Loop", "Convert", "Record", "Bundle"}
Accepted(s, i) == validate_file(uploaded_files[s][i])[1]

\* the extension rule stated on the characters of the name
HasMp4Extension(n) ==
  /\ Len(n) >= 4
  /\ n[Len(n) - 3] = "."
  /\ n[Len(n) - 2] \in {"m", "M"}
  /\ n[Len(n) - 1] \in {"p", "P"}
  /\ n[Len(n)] = "4"

\* C1: validate_file applies its rules in order, first match wins: a name
\* without the .mp4 ending (any case) is refused for its extension whatever
\* its size; else size 0 is refused as empty; else a size above 500 MiB is
\* refused as too large; else (500 MiB exactly included) it is accepted
\* with an empty reason.
C1_RulesInOrder ==
  verdict # <<>> =>
    /\ (~HasMp4Extension(arg.name)
          => verdict = <<FALSE, <<arg.name, "nao_mp4">>>>)
    /\ (HasMp4Extension(arg.name) /\ arg.size = 0
          => verdict = <<FALSE, <<arg.name, "vazio">>>>)
    /\ (HasMp4Extension(arg.name) /\ arg.size > 524288000
          => verdict = <<FALSE, <<arg.name, "excede">>>>)
    /\ (HasMp4Extension(arg.name) /\ arg.size > 0 /\ arg.size <= 524288000
          => verdict = <<TRUE, <<>>>>)

\* a name ending in ".Mp4" of exactly 500 MiB has been accepted
C1_Witness ==
  /\ verdict = <<TRUE, <<>>>>
  /\ arg.size = 524288000
  /\ arg.name = <<"a", ".", "M", "p", "4">>

\* C2: in one batch run the worker is invoked once for every accepted item
\* and never for a rejected one, every invocation records one outcome, and
\* at the end successes + failures = accepted items, whatever the outcomes.
C2_OneOutcomePerAccepted ==
  \A s \in Sessions :
    LET outcomes == Len(converted_files[s]) + Len(errors[s])
    IN /\ \A i \in 1..Len(invoked[s]) :
            /\ Accepted(s, invoked[s][i])
            /\ \A j \in 1..Len(invoked[s]) :
                 invoked[s][j] = invoked[s][i] => j = i
       /\ outcomes = Len(invoked[s]) - (IF pc[s] = "Record" THEN 1 ELSE 0)
       /\ (pc[s] \in {"Bundle", "Done"}
             \/ (pc[s] = "Loop" /\ idx[s] = Len(valid_files[s])))
            => /\ \A i \in 1..Len(uploaded_files[s]) :
                    Accepted(s, i)
                      => \E j \in 1..Len(invoked[s]) : invoked[s][j] = i
               /\ outcomes = Cardinality({i \in 1..Len(uploaded_files[s]) :
                                             Accepted(s, i)})

\* the first item failed, the loop went on and the second succeeded
C2_Witness ==
  /\ pc[1] = "Done"
  /\ Len(valid_files[1]) = 2
  /\ Len(errors[1]) = 1 /\ errors[1][1][1] = valid_files[1][1].name
  /\ Len(converted_files[1]) = 1

\* C3: the bundler runs in a batch run if and only if that run recorded
\* more than one success; with zero or one success no bundle is produced
\* and none exists in the output directory at the end of the run.
C3_BundleIffSeveral ==
  \A s \in Sessions :
    /\ pc[s] = "Bundle" => Len(converted_files[s]) > 1
    /\ pc[s] = "Done" =>
         /\ zip.present <=> Len(converted_files[s]) > 1
         /\ zip.present => zip.run = run[s]

\* a second batch ended with one success and no bundle, after clearing the
\* bundle of the first
C3_Witness ==
  /\ pc[1] = "Done"
  /\ Len(converted_files[1]) = 1
  /\ cleared.zip
  /\ ~zip.present

\* C4: a bundle produced by a run with 2 or more successes has as entries
\* exactly the base names of that run's successful outputs, none twice and
\* none missing, also when two items share a base name.
C4_BundleExact ==
  \A s \in Sessions :
    (pc[s] = "Done" /\ zip.present) =>
      /\ {zip.entries[i] : i \in 1..Len(zip.entries)}
           = {BaseName(converted_files[s][i]) :
                i \in 1..Len(converted_files[s])}
      /\ \A i, j \in 1..Len(zip.entries) :
           zip.entries[i] = zip.entries[j] => i = j

\* C5: in every batch run the clear is over before the run's first output
\* is written, right after it the directory holds no output and no bundle,
\* and once a batch is processing nothing of an earlier batch is there.
C5_NoStaleArtifact ==
  \A s \in Sessions :
    /\ pc[s] = "ClearZip" => \A n \in DOMAIN dir : dir[n].run # run[s]
    /\ (pc[s] = "Loop" /\ invoked[s] = <<>>)
         => DOMAIN dir = {} /\ ~zip.present
    /\ pc[s] \in {"Loop", "Convert", "Record", "Bundle", "Done", "Aborted"} =>
         /\ \A n \in DOMAIN dir : dir[n].run = run[s]
         /\ zip.present => zip.run = run[s]

\* a batch is about to process its first item in a directory from which
\* the clear took the outputs and the bundle of the batch before
C5_Witness ==
  /\ pc[1] = "Loop" /\ idx[1] = 0 /\ run[1] = 2
  /\ cleared.outputs /\ cleared.zip

\* C6: a conversion over the 300 s limit is recorded as a failure with the
\* timeout message, and when the worker has returned no output file of
\* that item is in the output directory.
C6_TimeoutLeavesNoOutput ==
  \A s \in Sessions :
    (pc[s] = "Record" /\ result[s].error = "Timeout") =>
      /\ ~result[s].success
      /\ LET n == Mp3Name(Current(s).name)
         IN ~(/\ Exists(dir, n)
              /\ dir[n].run = run[s]
              /\ dir[n].owner = s
              /\ dir[n].item = Current(s).id)

\* C7: the temporary input copy of an item is deleted on every exit path
\* of the item's step, so none exists when the next item starts or when
\* the batch ends.
C7_TempReleased ==
  \A s \in Sessions :
    pc[s] \in {"Loop", "Bundle", "Done", "Aborted"} => tmp = {}

\* C8: check_ffmpeg lets no exception out: every failure to launch or run
\* the version query gives false, and true is given only on exit code 0.
C8_ProbeNeverRaises ==
  \A s \in Sessions : probe[s].raised = "none" /\ pc[s] # "Crashed"

\* C9: a started batch run ends in Done with every accepted item listed as
\* a success or a failure; it never aborts on an unhandled fault.
C9_NeverAborts ==
  \A s \in Sessions : pc[s] # "Aborted"

\* C10: the clear runs only between batches: at most one batch run at a
\* time is writing to or clearing the shared output directory.
C10_SingleWriter ==
  Cardinality({s \in Sessions : pc[s] \in InBatch}) <= 1

\* C10 as amended: a run clears only at its own start; none of its own
\* steps in the processing or bundling phase removes an output file or the
\* bundle.
C10_OwnStepsKeepOutputs ==
  [][\A s \in Sessions :
       (pc[s] \in {"Loop", "Convert", "Record", "Bundle"} /\ pc'[s] # pc[s])
         => /\ DOMAIN dir \subseteq DOMAIN dir'
            /\ zip.present => zip'.present]_vars

\* a run went through processing and bundling while another session was
\* in a batch of its own
C10_Witness ==
  \E s, t \in Sessions :
    /\ s # t
    /\ pc[s] = "Done" /\ zip.present /\ zip.owner = s
    /\ pc[t] \in InBatch

====
